---------------------------- MODULE Spec2Model ----------------------------
(***************************************************************************)
(* A model of the library catalog of src/library_management_system:        *)
(* the Book and Member entities (models.py), the argument checks           *)
(* (decorators.py) and the Library with its JSON store and its             *)
(* transaction() context manager (library.py).                             *)
(*                                                                         *)
(* Representation.                                                         *)
(*   - Python's Optional[T] is a sequence: None is <<>>, a value x is      *)
(*     <<x>>.                                                              *)
(*   - A str of which only the length, the emptiness and the identity      *)
(*     matter (isbn, member_id, name) is a TLA+ string; a str whose        *)
(*     characters matter (title, author, email) is a sequence of           *)
(*     one-character strings.                                              *)
(*   - A dict is the sequence of its values in insertion order; the key    *)
(*     of a Book is its isbn and the key of a Member its member_id (the    *)
(*     code never inserts under another key).                              *)
(*   - Objects are modelled by value.  The only place where the code       *)
(*     depends on object identity is the snapshot of transaction(), which  *)
(*     is a copy.deepcopy: a value.                                        *)
(*   - A datetime is a day ordinal (date.toordinal()).                     *)
(*   - An exception is a tuple <<kind, payload...>>; "no exception" is     *)
(*     <<>>.                                                               *)
(***************************************************************************)
EXTENDS Integers, Sequences, FiniteSets, TLC

VARIABLES books, members, books_file, members_file, now, tx, last, steps

vars == <<books, members, books_file, members_file, now, tx, last, steps>>

(***************************************************************************)
(* Bounds of the model.                                                    *)
(***************************************************************************)
\* The number of operations of one session (every action is one operation).
MaxSteps == 4
\* The longest borrowed_books list a Member is constructed with.
MaxHeld == 3

(***************************************************************************)
(* Constants of the program and of the Python library it calls.            *)
(***************************************************************************)
\* The day the session starts: date(2026, 11, 5).toordinal().
Now0 == 739925
\* date.max.toordinal(): datetime + timedelta raises OverflowError beyond it.
MaxOrdinal == 3652059
\* validate_isbn and Book.__post_init__: an ISBN has at least 10 characters.
MinIsbnLen == 10
\* Book.__post_init__: the earliest year of a book.
MinYear == 1000
\* Member.max_books: the default capacity of a member.
DefaultMaxBooks == 3
\* borrow_book and Book.borrow: the default of the days argument.
DefaultDays == 14

(***************************************************************************)
(* The inputs the operations are called with.                              *)
(***************************************************************************)
None == <<>>
Some(x) == <<x>>
NoExc == <<>>

ISBN1 == "ISBN-00001"
ISBN2 == "ISBN-00002"
ShortIsbn == "123"
Isbns == {ISBN1, ISBN2, ShortIsbn}

MemberIds == {"M1", "M2", ""}

Titles == {<<>>, <<"D", "u", "n", "e">>}
Authors == {<<>>, <<"H", "e", "r", "b", "e", "r", "t">>}
Years == {999, 2000, 9999}
Names == {"", "Ann"}
Emails == {<<"a", ".", "e", "x">>, <<"a", "@", "e", "x">>}

\* The query arguments of search_books: the empty string, a part of a title
\* and a part of an author in another case, and a string that is in no book.
Queries == {<<>>, <<"d", "U">>, <<"A", "u", "S">>, <<"x">>}

\* A timedelta of this many days is the largest Python builds: adding it to
\* any date of the session overflows.
HugeDays == 999999999
DaysArgs == {1, DefaultDays, HugeDays}

\* datetime.datetime.now().year, with the Gregorian mean year of 146097/400 days.
YearOf(d) == (d * 400) \div 146097 + 1

Range(s) == {s[i] : i \in DOMAIN s}

\* The letters of the model that have two cases: <<upper, lower>>.
CasePairs ==
    {<<"A", "a">>, <<"D", "d">>, <<"E", "e">>, <<"H", "h">>, <<"S", "s">>, <<"U", "u">>}

\* str.lower() that leaves the string as it is.
str_lower_Identity(s) == s

\* str.lower()
str_lower(s) ==
    [i \in DOMAIN s |->
        IF \E p \in CasePairs : p[1] = s[i]
        THEN (CHOOSE p \in CasePairs : p[1] = s[i])[2]
        ELSE s[i]]

\* "needle in hay" on two str.
str_contains(needle, hay) ==
    \E off \in 0..(Len(hay) - Len(needle)) :
        \A k \in 1..Len(needle) : hay[off + k] = needle[k]

\* dict.get(key, default) on a JSON object.
Get(data, key, default) == IF key \in DOMAIN data THEN data[key] ELSE default

(***************************************************************************)
(* models.py: Book                                                         *)
(***************************************************************************)
\* Book.__post_init__: the exception the constructor raises, or NoExc.
Book_post_init(b, today) ==
    IF b.isbn = "" \/ Len(b.isbn) < MinIsbnLen THEN <<"ValueError", "isbn">>
    ELSE IF b.title = <<>> THEN <<"ValueError", "title">>
    ELSE IF b.author = <<>> THEN <<"ValueError", "author">>
    ELSE IF ~(MinYear <= b.year /\ b.year <= YearOf(today)) THEN <<"ValueError", "year">>
    ELSE NoExc

\* Book(isbn=, title=, author=, year=): the dataclass defaults.
NewBook(isbn, title, author, year) ==
    [isbn |-> isbn, title |-> title, author |-> author, year |-> year,
     available |-> TRUE, borrowed_by |-> None, due_date |-> None]

\* datetime.datetime.now() + datetime.timedelta(days=days) overflows.
DueOverflows(today, days) == today + days > MaxOrdinal \/ today + days < 1

\* Book.borrow: the assignments of lines 34 and 35 are done when line 36 raises.
Book_borrow(b, member_id, days, today) ==
    IF ~b.available THEN [book |-> b, exc |-> <<"RuntimeError", "already borrowed">>]
    ELSE LET b2 == [b EXCEPT !.available = FALSE, !.borrowed_by = Some(member_id)]
         IN  IF DueOverflows(today, days)
             THEN [book |-> b2, exc |-> <<"OverflowError", "date">>]
             ELSE [book |-> [b2 EXCEPT !.due_date = Some(today + days)], exc |-> NoExc]

\* Book.return_book that leaves the borrower in place.
Book_return_book_KeepsBorrower(b) ==
    IF b.available THEN [book |-> b, exc |-> <<"RuntimeError", "not borrowed">>]
    ELSE [book |-> [b EXCEPT !.available = TRUE, !.due_date = None], exc |-> NoExc]

\* Book.return_book that leaves the due date in place.
Book_return_book_KeepsDueDate(b) ==
    IF b.available THEN [book |-> b, exc |-> <<"RuntimeError", "not borrowed">>]
    ELSE [book |-> [b EXCEPT !.available = TRUE, !.borrowed_by = None], exc |-> NoExc]

\* Book.return_book
Book_return_book(b) ==
    IF b.available THEN [book |-> b, exc |-> <<"RuntimeError", "not borrowed">>]
    ELSE [book |-> [b EXCEPT !.available = TRUE, !.borrowed_by = None, !.due_date = None],
          exc |-> NoExc]

\* Book.is_overdue with >= for >.
Book_is_overdue_AtDueDate(b, today) ==
    IF b.due_date = None THEN FALSE ELSE today >= b.due_date[1]

\* Book.is_overdue
Book_is_overdue(b, today) ==
    IF b.due_date = None THEN FALSE ELSE today > b.due_date[1]

\* datetime.isoformat() and datetime.fromisoformat(): the ISO-8601 text of a day.
Isoformat(d) == <<"iso", d>>
Fromisoformat(s) == s[2]

\* Book.to_dict that writes no due date.
Book_to_dict_NoDueDate(b) ==
    [isbn |-> b.isbn, title |-> b.title, author |-> b.author, year |-> b.year,
     available |-> b.available, borrowed_by |-> b.borrowed_by, due_date |-> None]

\* Book.to_dict
Book_to_dict(b) ==
    [isbn |-> b.isbn, title |-> b.title, author |-> b.author, year |-> b.year,
     available |-> b.available, borrowed_by |-> b.borrowed_by,
     due_date |-> IF b.due_date # None THEN Some(Isoformat(b.due_date[1])) ELSE None]

\* Book.from_dict that builds the book without __post_init__.
Book_from_dict_NoValidate(data, today) ==
    IF ~({"isbn", "title", "author", "year"} \subseteq DOMAIN data)
    THEN [book |-> None, exc |-> <<"KeyError", "book">>]
    ELSE LET dd == Get(data, "due_date", None)
         IN  [book |-> Some([isbn |-> data.isbn, title |-> data.title,
                             author |-> data.author, year |-> data.year,
                             available |-> Get(data, "available", TRUE),
                             borrowed_by |-> Get(data, "borrowed_by", None),
                             due_date |-> IF dd # None THEN Some(Fromisoformat(dd[1]))
                                          ELSE None]),
              exc |-> NoExc]

\* Book.from_dict: the book, or the KeyError / ValueError it raises.
Book_from_dict(data, today) ==
    IF ~({"isbn", "title", "author", "year"} \subseteq DOMAIN data)
    THEN [book |-> None, exc |-> <<"KeyError", "book">>]
    ELSE LET dd == Get(data, "due_date", None)
             b == [isbn |-> data.isbn, title |-> data.title, author |-> data.author,
                   year |-> data.year,
                   available |-> Get(data, "available", TRUE),
                   borrowed_by |-> Get(data, "borrowed_by", None),
                   due_date |-> IF dd # None THEN Some(Fromisoformat(dd[1])) ELSE None]
         IN  IF Book_post_init(b, today) # NoExc
             THEN [book |-> None, exc |-> Book_post_init(b, today)]
             ELSE [book |-> Some(b), exc |-> NoExc]

(***************************************************************************)
(* models.py: Member                                                       *)
(***************************************************************************)
\* Member.__post_init__
Member_post_init(m) ==
    IF m.member_id = "" THEN <<"ValueError", "member_id">>
    ELSE IF m.name = "" THEN <<"ValueError", "name">>
    ELSE IF "@" \notin Range(m.email) THEN <<"ValueError", "email">>
    ELSE NoExc

\* Member(member_id=, name=, email=): the dataclass defaults.
NewMember(member_id, name, email) ==
    [member_id |-> member_id, name |-> name, email |-> email,
     borrowed_books |-> <<>>, max_books |-> DefaultMaxBooks]

\* Member.can_borrow with <= for <.
Member_can_borrow_OffByOne(m) == Len(m.borrowed_books) <= m.max_books

\* Member.can_borrow that is always true.
Member_can_borrow_Always(m) == TRUE

\* Member.can_borrow
Member_can_borrow(m) == Len(m.borrowed_books) < m.max_books

\* Member.add_borrowed_book without the "isbn not in" test.
Member_add_borrowed_book_Always(m, isbn) ==
    [m EXCEPT !.borrowed_books = Append(@, isbn)]

\* Member.add_borrowed_book
Member_add_borrowed_book(m, isbn) ==
    IF isbn \notin Range(m.borrowed_books)
    THEN [m EXCEPT !.borrowed_books = Append(@, isbn)]
    ELSE m

\* list.remove(x): drops the first occurrence of x.
RECURSIVE ListRemove(_, _)
ListRemove(s, x) ==
    IF s = <<>> THEN <<>>
    ELSE IF Head(s) = x THEN Tail(s)
    ELSE <<Head(s)>> \o ListRemove(Tail(s), x)

\* Member.remove_borrowed_book
Member_remove_borrowed_book(m, isbn) ==
    IF isbn \in Range(m.borrowed_books)
    THEN [m EXCEPT !.borrowed_books = ListRemove(@, isbn)]
    ELSE m

\* Member.to_dict
Member_to_dict(m) ==
    [member_id |-> m.member_id, name |-> m.name, email |-> m.email,
     borrowed_books |-> m.borrowed_books, max_books |-> m.max_books]

\* Member.from_dict
Member_from_dict(data) ==
    IF ~({"member_id", "name", "email"} \subseteq DOMAIN data)
    THEN [member |-> None, exc |-> <<"KeyError", "member">>]
    ELSE LET m == [member_id |-> data.member_id, name |-> data.name, email |-> data.email,
                   borrowed_books |-> Get(data, "borrowed_books", <<>>),
                   max_books |-> Get(data, "max_books", DefaultMaxBooks)]
         IN  IF Member_post_init(m) # NoExc
             THEN [member |-> None, exc |-> Member_post_init(m)]
             ELSE [member |-> Some(m), exc |-> NoExc]

(***************************************************************************)
(* decorators.py                                                           *)
(***************************************************************************)
\* validate_isbn: every isbn of the model is a str.
validate_isbn(isbn) ==
    IF Len(isbn) < MinIsbnLen THEN <<"ValueError", "isbn too short">> ELSE NoExc

\* require_member that lets every member_id through.
require_member_Off(member_id) == NoExc

\* require_member: "if not member_id".
require_member(member_id) ==
    IF member_id = "" THEN <<"ValueError", "member_id is required">> ELSE NoExc

(***************************************************************************)
(* library.py: the two mappings                                            *)
(***************************************************************************)
\* The position of key isbn in self.books, 0 when it is no key.
BookIndex(bks, isbn) ==
    IF \E i \in DOMAIN bks : bks[i].isbn = isbn
    THEN CHOOSE i \in DOMAIN bks : bks[i].isbn = isbn
    ELSE 0

\* The position of key member_id in self.members, 0 when it is no key.
MemberIndex(mbs, member_id) ==
    IF \E i \in DOMAIN mbs : mbs[i].member_id = member_id
    THEN CHOOSE i \in DOMAIN mbs : mbs[i].member_id = member_id
    ELSE 0

BookKeys(bks) == {bks[i].isbn : i \in DOMAIN bks}
MemberKeys(mbs) == {mbs[i].member_id : i \in DOMAIN mbs}

\* d[key] = value on a dict: a known key keeps its place.
BooksPut(bks, b) ==
    IF BookIndex(bks, b.isbn) = 0 THEN Append(bks, b)
    ELSE [bks EXCEPT ![BookIndex(bks, b.isbn)] = b]

MembersPut(mbs, m) ==
    IF MemberIndex(mbs, m.member_id) = 0 THEN Append(mbs, m)
    ELSE [mbs EXCEPT ![MemberIndex(mbs, m.member_id)] = m]

(***************************************************************************)
(* library.py: the store.  A file is missing, zero-length ("empty"), text  *)
(* that is no JSON ("corrupt"), a JSON document that is no array (a        *)
(* number, "scalar"), or a JSON array of objects.                          *)
(***************************************************************************)
Missing == [kind |-> "missing", data |-> <<>>]
ZeroLength == [kind |-> "empty", data |-> <<>>]
Corrupt == [kind |-> "corrupt", data |-> <<>>]
NotAnArray == [kind |-> "scalar", data |-> <<>>]
Json(array) == [kind |-> "json", data |-> array]

\* The dict comprehension of _load_data over books_data, up to the first
\* record that raises.
RECURSIVE LoadBooks(_, _, _)
LoadBooks(array, acc, today) ==
    IF array = <<>> THEN [books |-> acc, exc |-> NoExc]
    ELSE LET r == Book_from_dict(Head(array), today)
         IN  IF r.exc # NoExc THEN [books |-> acc, exc |-> r.exc]
             ELSE LoadBooks(Tail(array), BooksPut(acc, r.book[1]), today)

RECURSIVE LoadMembers(_, _)
LoadMembers(array, acc) ==
    IF array = <<>> THEN [members |-> acc, exc |-> NoExc]
    ELSE LET r == Member_from_dict(Head(array))
         IN  IF r.exc # NoExc THEN [members |-> acc, exc |-> r.exc]
             ELSE LoadMembers(Tail(array), MembersPut(acc, r.member[1]))

\* One "if exists and st_size > 0: json.load ... else: {}" of _load_data.
ReadBooksFile(f, today) ==
    IF f.kind \in {"missing", "empty"} THEN [books |-> <<>>, exc |-> NoExc]
    ELSE IF f.kind = "corrupt" THEN [books |-> <<>>, exc |-> <<"JSONDecodeError", "books">>]
    ELSE IF f.kind = "scalar" THEN [books |-> <<>>, exc |-> <<"TypeError", "books">>]
    ELSE LoadBooks(f.data, <<>>, today)

ReadMembersFile(f) ==
    IF f.kind \in {"missing", "empty"} THEN [members |-> <<>>, exc |-> NoExc]
    ELSE IF f.kind = "corrupt" THEN [members |-> <<>>, exc |-> <<"JSONDecodeError", "members">>]
    ELSE IF f.kind = "scalar" THEN [members |-> <<>>, exc |-> <<"TypeError", "members">>]
    ELSE LoadMembers(f.data, <<>>)

\* The except clause of _load_data: the three kinds it catches leave as
\* InvalidDataError, every other exception leaves as it is.
Caught == {"JSONDecodeError", "KeyError", "ValueError"}
LoadError(e) == IF e[1] \in Caught THEN <<"InvalidDataError", e[1]>> ELSE e

\* Library.__init__ and _load_data: the mappings of a catalog constructed on
\* the store, or the exception the constructor raises.
Library_load_data(bf, mf, today) ==
    LET rb == ReadBooksFile(bf, today)
        rm == ReadMembersFile(mf)
    IN  IF rb.exc # NoExc
        THEN [books |-> <<>>, members |-> <<>>, exc |-> LoadError(rb.exc)]
        ELSE IF rm.exc # NoExc
        THEN [books |-> <<>>, members |-> <<>>, exc |-> LoadError(rm.exc)]
        ELSE [books |-> rb.books, members |-> rm.members, exc |-> NoExc]

\* How a save() may go: to its end, or an I/O error fails it while the
\* books file or the members file is written; open(..., "w") has truncated the
\* file by then and json.dump has written a part of the text.
IoOutcomes == {"complete", "fails at books", "fails at members"}

SerializeBooks(bks) == Json([i \in DOMAIN bks |-> Book_to_dict(bks[i])])
SerializeMembers(mbs) == Json([i \in DOMAIN mbs |-> Member_to_dict(mbs[i])])

\* Library.save that writes the books file only.
Library_save_BooksOnly(bks, mbs, bf, mf, io) ==
    IF io = "fails at books"
    THEN [books_file |-> Corrupt, members_file |-> mf, exc |-> <<"OSError", "books">>]
    ELSE [books_file |-> SerializeBooks(bks), members_file |-> mf, exc |-> NoExc]

\* Library.save
Library_save(bks, mbs, bf, mf, io) ==
    IF io = "fails at books"
    THEN [books_file |-> Corrupt, members_file |-> mf, exc |-> <<"OSError", "books">>]
    ELSE IF io = "fails at members"
    THEN [books_file |-> SerializeBooks(bks), members_file |-> Corrupt,
          exc |-> <<"OSError", "members">>]
    ELSE [books_file |-> SerializeBooks(bks), members_file |-> SerializeMembers(mbs),
          exc |-> NoExc]

(***************************************************************************)
(* library.py: the operations of the catalog, each as the function from    *)
(* the state it reads to the state it leaves and the exception it raises.  *)
(***************************************************************************)
\* Library.get_book without the validate_isbn decorator.
Library_get_book_NoValidate(bks, isbn) ==
    IF BookIndex(bks, isbn) = 0
    THEN [ret |-> None, exc |-> <<"BookNotFoundError", isbn>>]
    ELSE [ret |-> Some(bks[BookIndex(bks, isbn)]), exc |-> NoExc]

\* Library.get_book, under @validate_isbn
Library_get_book(bks, isbn) ==
    IF validate_isbn(isbn) # NoExc THEN [ret |-> None, exc |-> validate_isbn(isbn)]
    ELSE IF BookIndex(bks, isbn) = 0
    THEN [ret |-> None, exc |-> <<"BookNotFoundError", isbn>>]
    ELSE [ret |-> Some(bks[BookIndex(bks, isbn)]), exc |-> NoExc]

\* Library.get_member
Library_get_member(mbs, member_id) ==
    IF MemberIndex(mbs, member_id) = 0
    THEN [ret |-> None, exc |-> <<"MemberNotFoundError", member_id>>]
    ELSE [ret |-> Some(mbs[MemberIndex(mbs, member_id)]), exc |-> NoExc]

\* Library.add_book without the "isbn in self.books" check: the new book
\* replaces the one stored under the key.
Library_add_book_Overwrite(bks, isbn, title, author, year, today) ==
    LET book == NewBook(isbn, title, author, year)
    IN  IF validate_isbn(isbn) # NoExc THEN [books |-> bks, exc |-> validate_isbn(isbn)]
        ELSE IF Book_post_init(book, today) # NoExc
        THEN [books |-> bks, exc |-> Book_post_init(book, today)]
        ELSE [books |-> BooksPut(bks, book), exc |-> NoExc]

\* Library.add_book, under @validate_isbn
Library_add_book(bks, isbn, title, author, year, today) ==
    LET book == NewBook(isbn, title, author, year)
    IN  IF validate_isbn(isbn) # NoExc THEN [books |-> bks, exc |-> validate_isbn(isbn)]
        ELSE IF isbn \in BookKeys(bks)
        THEN [books |-> bks, exc |-> <<"ValueError", "book exists">>]
        ELSE IF Book_post_init(book, today) # NoExc
        THEN [books |-> bks, exc |-> Book_post_init(book, today)]
        ELSE [books |-> BooksPut(bks, book), exc |-> NoExc]

\* Library.add_member
Library_add_member(mbs, member_id, name, email) ==
    LET member == NewMember(member_id, name, email)
    IN  IF member_id \in MemberKeys(mbs)
        THEN [members |-> mbs, exc |-> <<"ValueError", "member exists">>]
        ELSE IF Member_post_init(member) # NoExc
        THEN [members |-> mbs, exc |-> Member_post_init(member)]
        ELSE [members |-> MembersPut(mbs, member), exc |-> NoExc]

\* Library.borrow_book, under @validate_isbn and @require_member.  book and
\* member are the objects of the mappings: what Book.borrow has assigned
\* before it raises stays assigned.
Library_borrow_book(bks, mbs, isbn, member_id, days, today) ==
    LET unchanged(e) == [books |-> bks, members |-> mbs, exc |-> e]
        rb == Library_get_book(bks, isbn)
        rm == Library_get_member(mbs, member_id)
    IN  IF validate_isbn(isbn) # NoExc THEN unchanged(validate_isbn(isbn))
        ELSE IF require_member(member_id) # NoExc THEN unchanged(require_member(member_id))
        ELSE IF rb.exc # NoExc THEN unchanged(rb.exc)
        ELSE IF rm.exc # NoExc THEN unchanged(rm.exc)
        ELSE IF ~rb.ret[1].available THEN unchanged(<<"BookNotAvailableError", isbn>>)
        ELSE IF ~Member_can_borrow(rm.ret[1])
        THEN unchanged(<<"BorrowLimitExceededError", member_id, rm.ret[1].max_books>>)
        ELSE LET r == Book_borrow(rb.ret[1], member_id, days, today)
             IN  IF r.exc # NoExc
                 THEN [books |-> BooksPut(bks, r.book), members |-> mbs, exc |-> r.exc]
                 ELSE [books |-> BooksPut(bks, r.book),
                       members |-> MembersPut(mbs, Member_add_borrowed_book(rm.ret[1], isbn)),
                       exc |-> NoExc]

\* Library.return_book that returns the book before it compares the borrower.
Library_return_book_NoCompare(bks, mbs, isbn, member_id) ==
    LET unchanged(e) == [books |-> bks, members |-> mbs, exc |-> e]
        rb == Library_get_book(bks, isbn)
        rm == Library_get_member(mbs, member_id)
    IN  IF validate_isbn(isbn) # NoExc THEN unchanged(validate_isbn(isbn))
        ELSE IF require_member(member_id) # NoExc THEN unchanged(require_member(member_id))
        ELSE IF rb.exc # NoExc THEN unchanged(rb.exc)
        ELSE IF rm.exc # NoExc THEN unchanged(rm.exc)
        ELSE LET r == Book_return_book(rb.ret[1])
             IN  IF r.exc # NoExc THEN unchanged(r.exc)
                 ELSE [books |-> BooksPut(bks, r.book),
                       members |-> MembersPut(mbs,
                                      Member_remove_borrowed_book(rm.ret[1], isbn)),
                       exc |-> NoExc]

\* Library.return_book, under @validate_isbn and @require_member
Library_return_book(bks, mbs, isbn, member_id) ==
    LET unchanged(e) == [books |-> bks, members |-> mbs, exc |-> e]
        rb == Library_get_book(bks, isbn)
        rm == Library_get_member(mbs, member_id)
    IN  IF validate_isbn(isbn) # NoExc THEN unchanged(validate_isbn(isbn))
        ELSE IF require_member(member_id) # NoExc THEN unchanged(require_member(member_id))
        ELSE IF rb.exc # NoExc THEN unchanged(rb.exc)
        ELSE IF rm.exc # NoExc THEN unchanged(rm.exc)
        ELSE IF rb.ret[1].borrowed_by # Some(member_id)
        THEN unchanged(<<"ValueError", "not borrowed by member">>)
        ELSE LET r == Book_return_book(rb.ret[1])
             IN  IF r.exc # NoExc THEN unchanged(r.exc)
                 ELSE [books |-> BooksPut(bks, r.book),
                       members |-> MembersPut(mbs,
                                      Member_remove_borrowed_book(rm.ret[1], isbn)),
                       exc |-> NoExc]

\* Library.search_books: the list comprehension over self.books.values().
Library_search_books(bks, query) ==
    LET query_lower == str_lower(query)
        test(book) == \/ str_contains(query_lower, str_lower(book.title))
                      \/ str_contains(query_lower, str_lower(book.author))
    IN  SelectSeq(bks, test)

\* Library.get_available_books
Library_get_available_books(bks) ==
    LET test(book) == book.available
    IN  SelectSeq(bks, test)

\* Library.get_borrowed_books
Library_get_borrowed_books(bks) ==
    LET test(book) == ~book.available
    IN  SelectSeq(bks, test)

\* Library.get_overdue_books that lists every book that is lent.
Library_get_overdue_books_Lent(bks, today) == Library_get_borrowed_books(bks)

\* Library.get_overdue_books
Library_get_overdue_books(bks, today) ==
    LET test(book) == Book_is_overdue(book, today)
    IN  SelectSeq(bks, test)

\* Library.get_statistics
Library_get_statistics(bks, mbs, today) ==
    [total_books |-> Len(bks),
     available_books |-> Len(Library_get_available_books(bks)),
     borrowed_books |-> Len(Library_get_borrowed_books(bks)),
     overdue_books |-> Len(Library_get_overdue_books(bks, today)),
     total_members |-> Len(mbs)]

\* Library.clear_all_data without its save().
Library_clear_all_data_NoSave(bf, mf, io) ==
    [books |-> <<>>, members |-> <<>>, books_file |-> bf, members_file |-> mf,
     exc |-> NoExc]

\* Library.clear_all_data: both mappings are cleared before save() runs.
Library_clear_all_data(bf, mf, io) ==
    LET s == Library_save(<<>>, <<>>, bf, mf, io)
    IN  [books |-> <<>>, members |-> <<>>,
         books_file |-> s.books_file, members_file |-> s.members_file, exc |-> s.exc]

(***************************************************************************)
(* library.py: transaction().  A frame of tx is one scope that is open:    *)
(* its two backups, and for the properties the state at its entry and      *)
(* whether a save() or a clear_all_data() has run inside it.  The          *)
(* innermost scope is the head.                                            *)
(***************************************************************************)
\* transaction(), up to the yield: the two copy.deepcopy.
Transaction_enter(bks, mbs) == [books_backup |-> bks, members_backup |-> mbs]

\* The except block over backups that are the live objects (no deepcopy):
\* an entity that is still in the mapping shows its current fields.
Transaction_except_Shallow(bks, mbs, backup) ==
    LET live_book(b) == IF BookIndex(bks, b.isbn) = 0 THEN b
                        ELSE bks[BookIndex(bks, b.isbn)]
        live_member(m) == IF MemberIndex(mbs, m.member_id) = 0 THEN m
                          ELSE mbs[MemberIndex(mbs, m.member_id)]
    IN  [books |-> [i \in DOMAIN backup.books_backup |-> live_book(backup.books_backup[i])],
         members |-> [i \in DOMAIN backup.members_backup |->
                         live_member(backup.members_backup[i])]]

\* The "raise" of the except block with another error in place of the one
\* that was caught.
Transaction_reraise_Wrapped(e) == <<"RuntimeError", "transaction failed">>

\* transaction(), the bare "raise" that ends the except block: the exception
\* that was caught leaves the scope.
Transaction_reraise(e) == e

\* transaction(), the except block: both mappings are replaced by the backups.
Transaction_except(bks, mbs, backup) ==
    [books |-> backup.books_backup, members |-> backup.members_backup]

\* transaction() with the save() after its try statement: an error of save()
\* propagates and the mappings stay as the body left them.
Transaction_commit_KeepsMemory(bks, mbs, bf, mf, backup, io) ==
    LET s == Library_save(bks, mbs, bf, mf, io)
    IN  [books |-> bks, members |-> mbs,
         books_file |-> s.books_file, members_file |-> s.members_file, exc |-> s.exc]

\* transaction(), after the yield returns: save(), and the except block when
\* save() raises.
Transaction_commit(bks, mbs, bf, mf, backup, io) ==
    LET s == Library_save(bks, mbs, bf, mf, io)
        r == Transaction_except(bks, mbs, backup)
    IN  IF s.exc # NoExc
        THEN [books |-> r.books, members |-> r.members,
              books_file |-> s.books_file, members_file |-> s.members_file,
              exc |-> Transaction_reraise(s.exc)]
        ELSE [books |-> bks, members |-> mbs,
              books_file |-> s.books_file, members_file |-> s.members_file, exc |-> NoExc]

(***************************************************************************)
(* The session: one catalog on one store directory.                        *)
(***************************************************************************)
\* The store of the tests' populated_library, cut down: one free book, one
\* book lent to M1, who has a capacity of one book.
PopulatedBooks ==
    <<[isbn |-> ISBN1, title |-> <<"D", "u", "n", "e">>,
       author |-> <<"H", "e", "r", "b", "e", "r", "t">>, year |-> 2000,
       available |-> TRUE, borrowed_by |-> None, due_date |-> None],
      [isbn |-> ISBN2, title |-> <<"E", "m", "m", "a">>,
       author |-> <<"A", "u", "s", "t", "e", "n">>, year |-> 2000,
       available |-> FALSE, borrowed_by |-> Some("M1"),
       due_date |-> Some(Isoformat(Now0 + 1))]>>

PopulatedMembers ==
    <<[member_id |-> "M1", name |-> "Ann", email |-> <<"a", "@", "e", "x">>,
       borrowed_books |-> <<ISBN2>>, max_books |-> 1]>>

\* The stores a session starts on: none yet, a populated one, one with a
\* zero-length books file beside a members file that is no JSON, and one
\* whose members file is a JSON document that is no array.
InitStores ==
    { <<Missing, Missing>>,
      <<Json(PopulatedBooks), Json(PopulatedMembers)>>,
      <<ZeroLength, Corrupt>>,
      <<Json(PopulatedBooks), NotAnArray>> }

\* No catalog exists once the constructor has raised.
Alive == ~(last.op = "__init__" /\ last.exc # NoExc)

CanStep == steps < MaxSteps /\ Alive

\* What last tells of a scope that has just ended; of any other operation it
\* tells NoScope.
NoScope ==
    [changed |-> FALSE, added |-> FALSE, saved |-> FALSE, cleared |-> FALSE,
     raised |-> NoExc]

\* An entity that was in a mapping when the scope was entered is in it with
\* other fields.
ChangedInPlace(frame) ==
    \/ \E i \in DOMAIN frame.entry.books : \E j \in DOMAIN books :
          /\ books[j].isbn = frame.entry.books[i].isbn
          /\ books[j] # frame.entry.books[i]
    \/ \E i \in DOMAIN frame.entry.members : \E j \in DOMAIN members :
          /\ members[j].member_id = frame.entry.members[i].member_id
          /\ members[j] # frame.entry.members[i]

\* A key is in a mapping that was not in it when the scope was entered.
AddedInside(frame) ==
    \/ ~(BookKeys(books) \subseteq BookKeys(frame.entry.books))
    \/ ~(MemberKeys(members) \subseteq MemberKeys(frame.entry.members))

\* raised is the exception that was raised inside the scope: by its body, or
\* by the save() of its commit.
ScopeOf(frame, raised) ==
    [changed |-> ChangedInPlace(frame), added |-> AddedInside(frame),
     saved |-> frame.saved, cleared |-> frame.cleared, raised |-> raised]

\* The operation that has run last: its name, the exception it raised, the
\* isbn and member_id it was called with ("" when it takes none), and for a
\* query what it returned.
Done(op, exc, isbn, member_id) ==
    /\ last' = [op |-> op, exc |-> exc, isbn |-> isbn, member_id |-> member_id,
                scope |-> NoScope, ret |-> None]
    /\ steps' = steps + 1

ScopeDone(op, raised, exc) ==
    /\ last' = [op |-> op, exc |-> exc, isbn |-> "", member_id |-> "",
                scope |-> ScopeOf(Head(tx), raised), ret |-> None]
    /\ steps' = steps + 1

\* A query has run last and has returned ret.
Answered(op, ret) ==
    /\ last' = [op |-> op, exc |-> NoExc, isbn |-> "", member_id |-> "",
                scope |-> NoScope, ret |-> Some(ret)]
    /\ steps' = steps + 1

\* A save() inside open scopes: every frame notes it.
NoteSaved == [i \in DOMAIN tx |-> [tx[i] EXCEPT !.saved = TRUE]]

\* A clear_all_data() inside open scopes: it clears, and it saves.
NoteCleared == [i \in DOMAIN tx |-> [tx[i] EXCEPT !.saved = TRUE, !.cleared = TRUE]]

Init ==
    /\ \E st \in InitStores :
          /\ books_file = st[1]
          /\ members_file = st[2]
    /\ now = Now0
    /\ LET r == Library_load_data(books_file, members_file, now)
       IN  /\ books = r.books
           /\ members = r.members
           /\ last = [op |-> "__init__", exc |-> r.exc, isbn |-> "", member_id |-> "",
                   scope |-> NoScope, ret |-> None]
    /\ tx = <<>>
    /\ steps = 0

\* Library(data_dir): a catalog is constructed anew on the store.
Construct ==
    /\ CanStep /\ tx = <<>>
    /\ LET r == Library_load_data(books_file, members_file, now)
       IN  /\ books' = r.books
           /\ members' = r.members
           /\ Done("__init__", r.exc, "", "")
    /\ UNCHANGED <<books_file, members_file, now, tx>>

\* add_book with the save() that the source has commented out.
AddBook_AutoSave ==
    /\ CanStep
    /\ \E isbn \in Isbns, title \in Titles, author \in Authors, year \in Years :
          LET r == Library_add_book(books, isbn, title, author, year, now)
              w == Library_save(r.books, members, books_file, members_file, "complete")
          IN  /\ books' = r.books
              /\ books_file' = IF r.exc = NoExc THEN w.books_file ELSE books_file
              /\ members_file' = IF r.exc = NoExc THEN w.members_file ELSE members_file
              /\ Done("add_book", r.exc, isbn, "")
    /\ UNCHANGED <<members, now, tx>>

\* Library.add_book is called.
AddBook ==
    /\ CanStep
    /\ \E isbn \in Isbns, title \in Titles, author \in Authors, year \in Years :
          LET r == Library_add_book(books, isbn, title, author, year, now)
          IN  /\ books' = r.books
              /\ Done("add_book", r.exc, isbn, "")
    /\ UNCHANGED <<members, books_file, members_file, now, tx>>

GetBook ==
    /\ CanStep
    /\ \E isbn \in Isbns : Done("get_book", Library_get_book(books, isbn).exc, isbn, "")
    /\ UNCHANGED <<books, members, books_file, members_file, now, tx>>

AddMember ==
    /\ CanStep
    /\ \E member_id \in MemberIds, name \in Names, email \in Emails :
          LET r == Library_add_member(members, member_id, name, email)
          IN  /\ members' = r.members
              /\ Done("add_member", r.exc, "", member_id)
    /\ UNCHANGED <<books, books_file, members_file, now, tx>>

GetMember ==
    /\ CanStep
    /\ \E member_id \in MemberIds :
          Done("get_member", Library_get_member(members, member_id).exc, "", member_id)
    /\ UNCHANGED <<books, members, books_file, members_file, now, tx>>

\* borrow_book with the save() that the source has commented out.
BorrowBook_AutoSave ==
    /\ CanStep
    /\ \E isbn \in Isbns, member_id \in MemberIds, days \in DaysArgs :
          LET r == Library_borrow_book(books, members, isbn, member_id, days, now)
              w == Library_save(r.books, r.members, books_file, members_file, "complete")
          IN  /\ books' = r.books
              /\ members' = r.members
              /\ books_file' = IF r.exc = NoExc THEN w.books_file ELSE books_file
              /\ members_file' = IF r.exc = NoExc THEN w.members_file ELSE members_file
              /\ Done("borrow_book", r.exc, isbn, member_id)
    /\ UNCHANGED <<now, tx>>

\* Library.borrow_book is called.
BorrowBook ==
    /\ CanStep
    /\ \E isbn \in Isbns, member_id \in MemberIds, days \in DaysArgs :
          LET r == Library_borrow_book(books, members, isbn, member_id, days, now)
          IN  /\ books' = r.books
              /\ members' = r.members
              /\ Done("borrow_book", r.exc, isbn, member_id)
    /\ UNCHANGED <<books_file, members_file, now, tx>>

ReturnBook ==
    /\ CanStep
    /\ \E isbn \in Isbns, member_id \in MemberIds :
          LET r == Library_return_book(books, members, isbn, member_id)
          IN  /\ books' = r.books
              /\ members' = r.members
              /\ Done("return_book", r.exc, isbn, member_id)
    /\ UNCHANGED <<now, tx>> /\ UNCHANGED <<books_file, members_file>>

Save ==
    /\ CanStep
    /\ \E io \in IoOutcomes :
          LET r == Library_save(books, members, books_file, members_file, io)
          IN  /\ books_file' = r.books_file
              /\ members_file' = r.members_file
              /\ Done("save", r.exc, "", "")
    /\ tx' = NoteSaved
    /\ UNCHANGED <<books, members, now>>

ClearAllData ==
    /\ CanStep
    /\ \E io \in IoOutcomes :
          LET r == Library_clear_all_data(books_file, members_file, io)
          IN  /\ books' = r.books
              /\ members' = r.members
              /\ books_file' = r.books_file
              /\ members_file' = r.members_file
              /\ Done("clear_all_data", r.exc, "", "")
    /\ tx' = NoteCleared
    /\ UNCHANGED now

\* Library.search_books is called.
SearchBooks ==
    /\ CanStep
    /\ \E query \in Queries :
          Answered("search_books",
                   [query |-> query, result |-> Library_search_books(books, query)])
    /\ UNCHANGED <<books, members, books_file, members_file, now, tx>>

\* Library.get_statistics is called.
GetStatistics ==
    /\ CanStep
    /\ Answered("get_statistics", Library_get_statistics(books, members, now))
    /\ UNCHANGED <<books, members, books_file, members_file, now, tx>>

\* with library.transaction() as tx: the scope is entered.
TransactionEnter ==
    /\ CanStep
    /\ tx' = <<[backup |-> Transaction_enter(books, members),
                entry |-> [books |-> books, members |-> members,
                           books_file |-> books_file, members_file |-> members_file],
                saved |-> FALSE, cleared |-> FALSE]>> \o tx
    /\ Done("transaction.enter", NoExc, "", "")
    /\ UNCHANGED <<books, members, books_file, members_file, now>>

\* The body of the innermost scope ends without an error.
TransactionCommit ==
    /\ CanStep /\ tx # <<>>
    /\ \E io \in IoOutcomes :
          LET r == Transaction_commit(books, members, books_file, members_file,
                                      Head(tx).backup, io)
          IN  /\ books' = r.books
              /\ members' = r.members
              /\ books_file' = r.books_file
              /\ members_file' = r.members_file
              /\ ScopeDone("transaction.commit",
                           Library_save(books, members, books_file, members_file, io).exc,
                           r.exc)
    /\ tx' = Tail(NoteSaved)
    /\ UNCHANGED now

\* The errors the body of a scope can end with: an error of its own, or the
\* error of the operation it has just called.
BodyErrors ==
    {<<"ValueError", "Something went wrong">>}
        \cup (IF last.exc # NoExc THEN {last.exc} ELSE {})

\* The body of the innermost scope raises e: the except block runs and e is
\* raised again.
TransactionExcept ==
    /\ CanStep /\ tx # <<>>
    /\ \E e \in BodyErrors :
          LET r == Transaction_except(books, members, Head(tx).backup)
          IN  /\ books' = r.books
              /\ members' = r.members
              /\ ScopeDone("transaction.except", e, Transaction_reraise(e))
    /\ tx' = Tail(tx)
    /\ UNCHANGED <<books_file, members_file, now>>

\* A day passes.
Tick ==
    /\ CanStep
    /\ now' = now + 1
    /\ steps' = steps + 1
    /\ UNCHANGED <<books, members, books_file, members_file, tx, last>>

Next ==
    \/ Construct
    \/ AddBook
    \/ GetBook
    \/ AddMember
    \/ GetMember
    \/ BorrowBook
    \/ ReturnBook
    \/ Save
    \/ ClearAllData
    \/ SearchBooks
    \/ GetStatistics
    \/ TransactionEnter
    \/ TransactionCommit
    \/ TransactionExcept
    \/ Tick

Spec == Init /\ [][Next]_vars

(***************************************************************************)
(* A Member on its own: constructed with a borrowed_books list that holds  *)
(* no ISBN twice (add_borrowed_book keeps it so), then add_borrowed_book   *)
(* and remove_borrowed_book are called on it.  The member is members[1];   *)
(* last.ret is the list before the call.                                   *)
(***************************************************************************)
ISBN3 == "ISBN-00003"
HeldIsbns == {ISBN1, ISBN2, ISBN3}

HeldLists ==
    {s \in UNION {[1..n -> HeldIsbns] : n \in 0..MaxHeld} :
        \A i, j \in DOMAIN s : i # j => s[i] # s[j]}

MemberCalled(op, isbn) ==
    /\ last' = [op |-> op, exc |-> NoExc, isbn |-> isbn, member_id |-> "M1",
                scope |-> NoScope, ret |-> Some(members[1].borrowed_books)]
    /\ steps' = steps + 1

MemberInit ==
    /\ \E held \in HeldLists :
          members = <<[NewMember("M1", "Ann", <<"a", "@", "e", "x">>)
                          EXCEPT !.borrowed_books = held]>>
    /\ Member_post_init(members[1]) = NoExc
    /\ books = <<>>
    /\ books_file = Missing /\ members_file = Missing
    /\ now = Now0
    /\ tx = <<>>
    /\ last = [op |-> "Member", exc |-> NoExc, isbn |-> "", member_id |-> "M1",
               scope |-> NoScope, ret |-> None]
    /\ steps = 0

AddBorrowedBook ==
    /\ steps < MaxSteps
    /\ \E isbn \in HeldIsbns :
          /\ members' = <<Member_add_borrowed_book(members[1], isbn)>>
          /\ MemberCalled("add_borrowed_book", isbn)
    /\ UNCHANGED <<books, books_file, members_file, now, tx>>

RemoveBorrowedBook ==
    /\ steps < MaxSteps
    /\ \E isbn \in HeldIsbns :
          /\ members' = <<Member_remove_borrowed_book(members[1], isbn)>>
          /\ MemberCalled("remove_borrowed_book", isbn)
    /\ UNCHANGED <<books, books_file, members_file, now, tx>>

MemberNext ==
    \/ AddBorrowedBook
    \/ RemoveBorrowedBook

MemberSpec == MemberInit /\ [][MemberNext]_vars

(***************************************************************************)
(* The constructor on a store that was not written by save(): each file is *)
(* missing, zero-length, or a JSON array of one or two records, whose last *)
(* record has any of the field values of the model or lacks a required     *)
(* key.                                                                    *)
(***************************************************************************)
\* A JSON object without one of its keys.
Drop(data, key) == [k \in DOMAIN data \ {key} |-> data[k]]

StoredBookRecords ==
    LET full == {[isbn |-> isbn, title |-> title, author |-> author, year |-> year] :
                    isbn \in {ISBN1, ShortIsbn}, title \in Titles,
                    author \in Authors, year \in Years}
        whole == [isbn |-> ISBN1, title |-> <<"D", "u", "n", "e">>,
                  author |-> <<"H", "e", "r", "b", "e", "r", "t">>, year |-> 2000]
    IN  full \cup {Drop(whole, key) : key \in DOMAIN whole}

StoredMemberRecords ==
    LET full == {[member_id |-> member_id, name |-> name, email |-> email] :
                    member_id \in {"M2", ""}, name \in Names, email \in Emails}
        whole == [member_id |-> "M2", name |-> "Ann", email |-> <<"a", "@", "e", "x">>]
    IN  full \cup {Drop(whole, key) : key \in DOMAIN whole}

BookArrays ==
    {<<data>> : data \in StoredBookRecords}
        \cup {<<PopulatedBooks[2], data>> : data \in StoredBookRecords}

MemberArrays ==
    {<<data>> : data \in StoredMemberRecords}
        \cup {<<PopulatedMembers[1], data>> : data \in StoredMemberRecords}

LoadInit ==
    /\ books_file \in {Missing, ZeroLength} \cup {Json(array) : array \in BookArrays}
    /\ members_file \in {Missing, ZeroLength} \cup {Json(array) : array \in MemberArrays}
    /\ books = <<>>
    /\ members = <<>>
    /\ now = Now0
    /\ tx = <<>>
    /\ last = [op |-> "store", exc |-> NoExc, isbn |-> "", member_id |-> "",
               scope |-> NoScope, ret |-> None]
    /\ steps = 0

LoadSpec == LoadInit /\ [][Construct]_vars

(***************************************************************************)
(* The steps that end a scope.                                             *)
(***************************************************************************)
ExceptStep == Len(tx') + 1 = Len(tx) /\ last'.op = "transaction.except"
CommitStep == Len(tx') + 1 = Len(tx) /\ last'.op = "transaction.commit"
CommitOk == CommitStep /\ last'.exc = NoExc
CommitFailed == CommitStep /\ last'.exc # NoExc

StoreAsAtEntry(frame) ==
    /\ books_file' = frame.entry.books_file
    /\ members_file' = frame.entry.members_file

\* A catalog constructed on the store after the step.
FreshLoad == Library_load_data(books_file', members_file', now')

(***************************************************************************)
(* C1.  When a transaction() scope ends with an error (its body raised, or *)
(* the save() of its commit raised), both mappings are, after the scope,   *)
(* equal to what they were when the scope was entered, whatever            *)
(* add_book, add_member, borrow_book and return_book did inside it, to new *)
(* entities or in place to entities that were there before.                *)
(***************************************************************************)
C1_ErrorRestoresMappings ==
    [][(ExceptStep \/ CommitFailed) =>
          /\ books' = Head(tx).entry.books
          /\ members' = Head(tx).entry.members]_vars

\* A scope has ended with an error after an entity that was there before the
\* scope had been changed in place inside it.
C1_Witness ==
    /\ last.op = "transaction.except"
    /\ last.scope.changed

(***************************************************************************)
(* C2, as stated.  When the body of a transaction() scope raises, the two  *)
(* store files are after the scope what they were when it was entered,     *)
(* whatever was called inside the scope.                                   *)
(***************************************************************************)
C2_ErrorLeavesStore ==
    [][ExceptStep => StoreAsAtEntry(Head(tx))]_vars

(***************************************************************************)
(* C2, amended.  When the body of a transaction() scope raises and no      *)
(* save(), clear_all_data() or commit of a nested transaction has run      *)
(* inside the scope, the two store files are after the scope what they     *)
(* were when it was entered.                                               *)
(***************************************************************************)
C2_ErrorLeavesStoreUnlessSaved ==
    [][(ExceptStep /\ ~Head(tx).saved) => StoreAsAtEntry(Head(tx))]_vars

\* A scope on a written store has ended with an error after its body had
\* changed the mappings, and had not saved.
C2_Witness ==
    /\ last.op = "transaction.except"
    /\ last.scope.changed \/ last.scope.added
    /\ ~last.scope.saved
    /\ books_file.kind = "json"

(***************************************************************************)
(* C3, as stated.  When a transaction() scope ends without an error, the   *)
(* store has been saved: a catalog constructed on it afterwards holds the  *)
(* mappings as they are in memory at the end of the scope, and so every    *)
(* book and member that was there before the scope and every one added     *)
(* inside it.                                                              *)
(***************************************************************************)
C3_CommitPersistsAll ==
    [][CommitOk =>
          /\ FreshLoad.exc = NoExc
          /\ FreshLoad.books = books'
          /\ FreshLoad.members = members'
          /\ BookKeys(Head(tx).entry.books) \subseteq BookKeys(FreshLoad.books)
          /\ MemberKeys(Head(tx).entry.members) \subseteq MemberKeys(FreshLoad.members)
          /\ BookKeys(books) \subseteq BookKeys(FreshLoad.books)
          /\ MemberKeys(members) \subseteq MemberKeys(FreshLoad.members)]_vars

(***************************************************************************)
(* C3, amended.  When a transaction() scope ends without an error, a       *)
(* catalog constructed on the store afterwards holds the mappings as they  *)
(* are in memory at the end of the scope; it holds every book and member   *)
(* that was there before the scope and every one added inside it unless    *)
(* clear_all_data() has run inside the scope.                              *)
(***************************************************************************)
C3_CommitPersistsMemory ==
    [][CommitOk =>
          /\ FreshLoad.exc = NoExc
          /\ FreshLoad.books = books'
          /\ FreshLoad.members = members'
          /\ ~Head(tx).cleared =>
                /\ BookKeys(Head(tx).entry.books) \subseteq BookKeys(FreshLoad.books)
                /\ MemberKeys(Head(tx).entry.members) \subseteq MemberKeys(FreshLoad.members)
                /\ BookKeys(books) \subseteq BookKeys(FreshLoad.books)
                /\ MemberKeys(members) \subseteq MemberKeys(FreshLoad.members)]_vars

\* A scope in which a book or a member was added, and nothing cleared, has
\* ended without an error.
C3_Witness ==
    /\ last.op = "transaction.commit"
    /\ last.exc = NoExc
    /\ last.scope.added
    /\ ~last.scope.cleared
    /\ books_file.kind = "json"

(***************************************************************************)
(* The steps of borrow_book (a Tick leaves last as it is, and moves now).  *)
(***************************************************************************)
BorrowStep == steps' = steps + 1 /\ now' = now /\ last'.op = "borrow_book"

\* Both updates of borrow_book(isbn, member_id) are in the mappings.
BorrowApplied(bks, mbs, isbn, member_id) ==
    /\ BookIndex(bks, isbn) # 0
    /\ MemberIndex(mbs, member_id) # 0
    /\ ~bks[BookIndex(bks, isbn)].available
    /\ bks[BookIndex(bks, isbn)].borrowed_by = Some(member_id)
    /\ bks[BookIndex(bks, isbn)].due_date # None
    /\ isbn \in Range(mbs[MemberIndex(mbs, member_id)].borrowed_books)

(***************************************************************************)
(* C4.  borrow_book(isbn, member_id, days) is atomic on the mappings: for  *)
(* every isbn, member_id and days, after the call has returned or raised   *)
(* either the book is lent to member_id with a due date and isbn is in the *)
(* member's borrowed_books, or no book and no member has changed.          *)
(***************************************************************************)
C4_BorrowAtomic ==
    [][BorrowStep =>
          \/ books' = books /\ members' = members
          \/ BorrowApplied(books', members', last'.isbn, last'.member_id)]_vars

(***************************************************************************)
(* C5.  In every state every book is either available with no borrower and *)
(* no due date, or unavailable with a borrower and a due date.             *)
(***************************************************************************)
C5_BookInvariant ==
    \A i \in DOMAIN books :
        /\ ~books[i].available <=>
              (books[i].borrowed_by # None /\ books[i].due_date # None)
        /\ books[i].available <=>
              (books[i].borrowed_by = None /\ books[i].due_date = None)

(***************************************************************************)
(* C6, as stated.  For a member whose borrowed_books has max_books         *)
(* entries, can_borrow() is false and every borrow_book call for that      *)
(* member raises BorrowLimitExceededError(member_id, max_books).           *)
(***************************************************************************)
AtLimit(m) == Len(m.borrowed_books) = m.max_books

C6_AtLimitAlwaysLimitExceeded ==
    \A i \in DOMAIN members :
        AtLimit(members[i]) =>
            /\ ~Member_can_borrow(members[i])
            /\ \A isbn \in Isbns, days \in DaysArgs :
                  Library_borrow_book(books, members, isbn, members[i].member_id,
                                      days, now).exc
                     = <<"BorrowLimitExceededError", members[i].member_id,
                         members[i].max_books>>

(***************************************************************************)
(* C6, amended.  For a member whose borrowed_books has max_books entries,  *)
(* can_borrow() is false and every borrow_book call for that member raises *)
(* and changes nothing: BorrowLimitExceededError(member_id, max_books)     *)
(* when isbn is the key of an available book, and otherwise the error of   *)
(* an earlier check: ValueError for an isbn shorter than 10 characters,    *)
(* BookNotFoundError(isbn) for an isbn that is no key,                     *)
(* BookNotAvailableError(isbn) for a book that is lent.                    *)
(***************************************************************************)
C6_AtLimitBorrowFails ==
    \A i \in DOMAIN members :
        AtLimit(members[i]) =>
            /\ ~Member_can_borrow(members[i])
            /\ \A isbn \in Isbns, days \in DaysArgs :
                  LET m == members[i]
                      r == Library_borrow_book(books, members, isbn, m.member_id, days, now)
                      j == BookIndex(books, isbn)
                  IN  /\ r.books = books /\ r.members = members
                      /\ r.exc =
                            IF Len(isbn) < MinIsbnLen
                            THEN <<"ValueError", "isbn too short">>
                            ELSE IF j = 0 THEN <<"BookNotFoundError", isbn>>
                            ELSE IF ~books[j].available
                            THEN <<"BookNotAvailableError", isbn>>
                            ELSE <<"BorrowLimitExceededError", m.member_id, m.max_books>>

\* borrow_book has raised BorrowLimitExceededError for a member who holds
\* max_books books.
C6_Witness ==
    /\ last.op = "borrow_book"
    /\ last.exc # NoExc
    /\ last.exc[1] = "BorrowLimitExceededError"
    /\ MemberIndex(members, last.member_id) # 0
    /\ AtLimit(members[MemberIndex(members, last.member_id)])

(***************************************************************************)
(* C7, as stated.  borrow_book of a book that is lent raises               *)
(* BookNotAvailableError; Book.return_book of an available book raises     *)
(* RuntimeError, and so does Library.return_book(isbn, member_id) of an    *)
(* available book, for every member_id.                                    *)
(***************************************************************************)
Mismatch == <<"ValueError", "not borrowed by member">>

C7_ReturnAvailableIsRuntimeError ==
    \A i \in DOMAIN books :
        /\ ~books[i].available =>
              \A member_id \in MemberKeys(members), days \in DaysArgs :
                  Library_borrow_book(books, members, books[i].isbn, member_id, days, now).exc
                     = <<"BookNotAvailableError", books[i].isbn>>
        /\ books[i].available =>
              /\ Book_return_book(books[i]).exc = <<"RuntimeError", "not borrowed">>
              /\ \A member_id \in MemberIds :
                    LET r == Library_return_book(books, members, books[i].isbn, member_id)
                    IN  r.exc # NoExc /\ r.exc[1] = "RuntimeError"

(***************************************************************************)
(* C7, amended.  borrow_book of a book that is lent, for a member of the   *)
(* catalog, raises BookNotAvailableError(isbn) and changes nothing.        *)
(* Book.return_book of an available book raises RuntimeError and leaves    *)
(* the book as it is.  Library.return_book(isbn, member_id) of an          *)
(* available book (one that has no borrower) raises for every member_id    *)
(* and changes nothing, but never RuntimeError: ValueError for an empty    *)
(* member_id, MemberNotFoundError(member_id) for one that is no key, and   *)
(* the mismatch ValueError for a member of the catalog; Book.return_book   *)
(* is not reached.                                                         *)
(***************************************************************************)
C7_UnavailableAndNotBorrowed ==
    \A i \in DOMAIN books :
        /\ ~books[i].available =>
              \A member_id \in MemberKeys(members), days \in DaysArgs :
                  LET r == Library_borrow_book(books, members, books[i].isbn, member_id,
                                               days, now)
                  IN  /\ r.exc = <<"BookNotAvailableError", books[i].isbn>>
                      /\ r.books = books /\ r.members = members
        /\ (books[i].available /\ books[i].borrowed_by = None) =>
              /\ Book_return_book(books[i])
                    = [book |-> books[i], exc |-> <<"RuntimeError", "not borrowed">>]
              /\ \A member_id \in MemberIds :
                    LET r == Library_return_book(books, members, books[i].isbn, member_id)
                    IN  /\ r.books = books /\ r.members = members
                        /\ r.exc =
                              IF member_id = ""
                              THEN <<"ValueError", "member_id is required">>
                              ELSE IF member_id \notin MemberKeys(members)
                              THEN <<"MemberNotFoundError", member_id>>
                              ELSE Mismatch

\* return_book has been called for an available book and a member of the
\* catalog, and has raised the mismatch error.
C7_Witness ==
    /\ last.op = "return_book"
    /\ last.exc = Mismatch
    /\ BookIndex(books, last.isbn) # 0
    /\ books[BookIndex(books, last.isbn)].available
    /\ last.member_id \in MemberKeys(members)

(***************************************************************************)
(* C8, as stated.  return_book(isbn, member_id) on a book of the catalog   *)
(* raises the mismatch error and changes nothing when the book's           *)
(* borrowed_by is not member_id; otherwise it makes the book available,    *)
(* with no borrower and no due date, and isbn is no longer in that         *)
(* member's borrowed_books.                                                *)
(***************************************************************************)
Returned(r, isbn, member_id) ==
    /\ r.exc = NoExc
    /\ BookIndex(r.books, isbn) # 0
    /\ r.books[BookIndex(r.books, isbn)].available
    /\ r.books[BookIndex(r.books, isbn)].borrowed_by = None
    /\ r.books[BookIndex(r.books, isbn)].due_date = None
    /\ MemberIndex(r.members, member_id) # 0
    /\ isbn \notin Range(r.members[MemberIndex(r.members, member_id)].borrowed_books)

\* return_book(isbn, member_id) has touched the book isbn and the member
\* member_id only.
OthersKept(r, isbn, member_id) ==
    /\ Len(r.books) = Len(books) /\ Len(r.members) = Len(members)
    /\ \A j \in DOMAIN books : books[j].isbn # isbn => r.books[j] = books[j]
    /\ \A j \in DOMAIN members :
          members[j].member_id # member_id => r.members[j] = members[j]

C8_ReturnMismatchOrReturned ==
    \A i \in DOMAIN books : \A member_id \in MemberIds :
        LET r == Library_return_book(books, members, books[i].isbn, member_id)
        IN  IF books[i].borrowed_by # Some(member_id)
            THEN r.exc = Mismatch /\ r.books = books /\ r.members = members
            ELSE Returned(r, books[i].isbn, member_id)

(***************************************************************************)
(* C8, amended.  For a book and a member of the catalog,                   *)
(* return_book(isbn, member_id) raises the mismatch error and changes      *)
(* nothing when the book's borrowed_by is not member_id; otherwise it      *)
(* makes the book available, with no borrower and no due date, and isbn is *)
(* no longer in that member's borrowed_books; no other book or member      *)
(* changes.  (For a member_id that is empty or no key of the member        *)
(* mapping the earlier checks raise ValueError or MemberNotFoundError.)    *)
(***************************************************************************)
C8_ReturnOfKnownMember ==
    \A i \in DOMAIN books : \A member_id \in MemberKeys(members) :
        LET r == Library_return_book(books, members, books[i].isbn, member_id)
        IN  IF books[i].borrowed_by # Some(member_id)
            THEN r.exc = Mismatch /\ r.books = books /\ r.members = members
            ELSE /\ Returned(r, books[i].isbn, member_id)
                 /\ OthersKept(r, books[i].isbn, member_id)

\* return_book has returned a book: the book is available and the member
\* does not hold it.
C8_Witness ==
    /\ last.op = "return_book"
    /\ last.exc = NoExc
    /\ BookIndex(books, last.isbn) # 0
    /\ books[BookIndex(books, last.isbn)].available
    /\ MemberIndex(members, last.member_id) # 0
    /\ last.isbn \notin Range(members[MemberIndex(members, last.member_id)].borrowed_books)

(***************************************************************************)
(* C9, as stated.  For every isbn that is no key of the book mapping       *)
(* get_book(isbn) raises BookNotFoundError(isbn), and for every isbn that  *)
(* is a key it returns the book stored under it.                           *)
(***************************************************************************)
C9_GetBookNotFound ==
    \A isbn \in Isbns :
        LET r == Library_get_book(books, isbn)
        IN  IF isbn \notin BookKeys(books)
            THEN r.exc = <<"BookNotFoundError", isbn>>
            ELSE r.exc = NoExc /\ r.ret = Some(books[BookIndex(books, isbn)])

(***************************************************************************)
(* C9, amended.  For every isbn of at least 10 characters that is no key   *)
(* of the book mapping get_book(isbn) raises BookNotFoundError(isbn); for  *)
(* an isbn shorter than 10 characters validate_isbn raises ValueError      *)
(* before the lookup; for every isbn that is a key get_book returns the    *)
(* book stored under it.                                                   *)
(***************************************************************************)
C9_GetBookValidatedNotFound ==
    \A isbn \in Isbns :
        LET r == Library_get_book(books, isbn)
        IN  IF Len(isbn) < MinIsbnLen
            THEN r.exc = <<"ValueError", "isbn too short">> /\ r.ret = None
            ELSE IF isbn \notin BookKeys(books)
            THEN r.exc = <<"BookNotFoundError", isbn>> /\ r.ret = None
            ELSE /\ r.exc = NoExc
                 /\ r.ret = Some(books[BookIndex(books, isbn)])
                 /\ r.ret[1].isbn = isbn

\* get_book has raised BookNotFoundError for the isbn it was called with,
\* while the catalog holds another book.
C9_Witness ==
    /\ last.op = "get_book"
    /\ last.exc = <<"BookNotFoundError", last.isbn>>
    /\ last.isbn \notin BookKeys(books)
    /\ books # <<>>

(***************************************************************************)
(* C10, as stated.  borrow_book with an isbn that is no key of the book    *)
(* mapping raises BookNotFoundError(isbn); with an isbn that is a key and  *)
(* a member_id that is no key of the member mapping it raises              *)
(* MemberNotFoundError(member_id), the error of get_member; in both cases  *)
(* no book and no member is changed.                                       *)
(***************************************************************************)
C10_BorrowNotFound ==
    \A isbn \in Isbns, member_id \in MemberIds, days \in DaysArgs :
        LET r == Library_borrow_book(books, members, isbn, member_id, days, now)
        IN  /\ isbn \notin BookKeys(books) =>
                  /\ r.exc = <<"BookNotFoundError", isbn>>
                  /\ r.books = books /\ r.members = members
            /\ (isbn \in BookKeys(books) /\ member_id \notin MemberKeys(members)) =>
                  /\ r.exc = <<"MemberNotFoundError", member_id>>
                  /\ r.exc = Library_get_member(members, member_id).exc
                  /\ r.books = books /\ r.members = members

(***************************************************************************)
(* C10, amended.  borrow_book with an isbn of at least 10 characters and a *)
(* non-empty member_id raises BookNotFoundError(isbn) when isbn is no key  *)
(* of the book mapping, and MemberNotFoundError(member_id), the error of   *)
(* get_member, when isbn is a key and member_id is no key of the member    *)
(* mapping.  Before the lookups validate_isbn raises ValueError for an     *)
(* isbn shorter than 10 characters and then require_member raises          *)
(* ValueError for an empty member_id.  In all these cases no book and no   *)
(* member is changed.                                                      *)
(***************************************************************************)
C10_BorrowValidatedNotFound ==
    \A isbn \in Isbns, member_id \in MemberIds, days \in DaysArgs :
        LET r == Library_borrow_book(books, members, isbn, member_id, days, now)
            unknown == \/ isbn \notin BookKeys(books)
                       \/ member_id \notin MemberKeys(members)
        IN  unknown =>
               /\ r.books = books /\ r.members = members
               /\ r.exc =
                     IF Len(isbn) < MinIsbnLen THEN <<"ValueError", "isbn too short">>
                     ELSE IF member_id = "" THEN <<"ValueError", "member_id is required">>
                     ELSE IF isbn \notin BookKeys(books) THEN <<"BookNotFoundError", isbn>>
                     ELSE Library_get_member(members, member_id).exc
               /\ (Len(isbn) >= MinIsbnLen /\ member_id # "" /\ isbn \in BookKeys(books)) =>
                     r.exc = <<"MemberNotFoundError", member_id>>

\* borrow_book has been called for a book of the catalog and a member_id
\* that is no key, and has raised MemberNotFoundError for it.
C10_Witness ==
    /\ last.op = "borrow_book"
    /\ last.exc = <<"MemberNotFoundError", last.member_id>>
    /\ last.isbn \in BookKeys(books)
    /\ last.member_id \notin MemberKeys(members)

(***************************************************************************)
(* C11.  add_book with an isbn that is a key of the book mapping raises    *)
(* the duplicate-key ValueError, whatever the other arguments are, and     *)
(* add_member with a member_id that is a key of the member mapping does    *)
(* the same; the mapping is left as it is, the stored entity and its       *)
(* borrow state included (and neither operation touches the other          *)
(* mapping).  With a new key and arguments that make a valid entity the    *)
(* mapping afterwards is the mapping before with the one new entity, in    *)
(* its constructed state, appended at its end; with a new key and          *)
(* arguments the constructor rejects the call raises ValueError and the    *)
(* mapping is left as it is.                                               *)
(***************************************************************************)
DuplicateBook == <<"ValueError", "book exists">>
DuplicateMember == <<"ValueError", "member exists">>

C11_DuplicateKeyKeepsMappings ==
    /\ \A isbn \in Isbns, title \in Titles, author \in Authors, year \in Years :
          LET r == Library_add_book(books, isbn, title, author, year, now)
              book == NewBook(isbn, title, author, year)
          IN  IF isbn \in BookKeys(books)
              THEN r.exc = DuplicateBook /\ r.books = books
              ELSE IF Book_post_init(book, now) = NoExc
              THEN /\ r.exc = NoExc
                   /\ r.books = Append(books, book)
                   /\ Len(r.books) = Len(books) + 1
              ELSE /\ r.exc # NoExc /\ r.exc[1] = "ValueError" /\ r.exc # DuplicateBook
                   /\ r.books = books
    /\ \A member_id \in MemberIds, name \in Names, email \in Emails :
          LET r == Library_add_member(members, member_id, name, email)
              member == NewMember(member_id, name, email)
          IN  IF member_id \in MemberKeys(members)
              THEN r.exc = DuplicateMember /\ r.members = members
              ELSE IF Member_post_init(member) = NoExc
              THEN /\ r.exc = NoExc
                   /\ r.members = Append(members, member)
                   /\ Len(r.members) = Len(members) + 1
              ELSE /\ r.exc # NoExc /\ r.exc[1] = "ValueError" /\ r.exc # DuplicateMember
                   /\ r.members = members

\* add_book has raised the duplicate-key error for the isbn of a book that is
\* lent, and the book is still lent.
C11_Witness ==
    /\ last.op = "add_book"
    /\ last.exc = DuplicateBook
    /\ BookIndex(books, last.isbn) # 0
    /\ ~books[BookIndex(books, last.isbn)].available
    /\ books[BookIndex(books, last.isbn)].borrowed_by # None

(***************************************************************************)
(* C12.  A call of add_book, add_member, borrow_book or return_book,       *)
(* whether it returns or raises, leaves both store files as they are; a    *)
(* step that changes a store file is a save(), a clear_all_data() or the   *)
(* commit of a transaction() scope.                                        *)
(***************************************************************************)
Mutators == {"add_book", "add_member", "borrow_book", "return_book"}
Writers == {"save", "clear_all_data", "transaction.commit"}

\* A step that is a call of the operation last' names (a Tick moves now).
CallStep == steps' = steps + 1 /\ now' = now

C12_MutatorsLeaveStore ==
    [][/\ (CallStep /\ last'.op \in Mutators) =>
             (books_file' = books_file /\ members_file' = members_file)
       /\ (books_file' # books_file \/ members_file' # members_file) =>
             (CallStep /\ last'.op \in Writers)]_vars

\* borrow_book has lent a book of a catalog whose store is written, and the
\* store still holds the book as it was.
C12_Witness ==
    /\ last.op = "borrow_book"
    /\ last.exc = NoExc
    /\ books_file.kind = "json"
    /\ Library_load_data(books_file, members_file, now).exc = NoExc
    /\ Library_load_data(books_file, members_file, now).books # books

(***************************************************************************)
(* C13.  Constructing a catalog reads a store file that is missing or      *)
(* zero-length as an empty mapping, without an error, and raises           *)
(* InvalidDataError whenever the content of either store file is           *)
(* malformed, that is, cannot be decoded into the entities of a mapping.   *)
(***************************************************************************)
Absent(f) == f.kind \in {"missing", "empty"}

BooksMalformed == ~Absent(books_file) /\ ReadBooksFile(books_file, now).exc # NoExc
MembersMalformed == ~Absent(members_file) /\ ReadMembersFile(members_file).exc # NoExc

C13_LoadEmptyOrInvalidData ==
    LET r == Library_load_data(books_file, members_file, now)
    IN  IF BooksMalformed \/ MembersMalformed
        THEN r.exc # NoExc /\ r.exc[1] = "InvalidDataError"
        ELSE /\ r.exc = NoExc
             /\ Absent(books_file) => r.books = <<>>
             /\ Absent(members_file) => r.members = <<>>

(***************************************************************************)
(* C14.  Round trip.  In every state the catalog can reach, a save() that  *)
(* completes, followed by the construction of a catalog on the same store  *)
(* (at once or a day later), gives mappings equal to the saved ones: the   *)
(* same keys in the same order and every Book and Member equal field by    *)
(* field, available, borrowed_by, due_date and the ordered borrowed_books  *)
(* included.  The files written hold the saved mappings and nothing of     *)
(* what the files held before.                                             *)
(***************************************************************************)
C14_SaveLoadRoundTrip ==
    \A prior \in InitStores \cup {<<books_file, members_file>>} :
        LET s == Library_save(books, members, prior[1], prior[2], "complete")
        IN  /\ s.exc = NoExc
            /\ s.books_file = SerializeBooks(books)
            /\ s.members_file = SerializeMembers(members)
            /\ \A today \in {now, now + 1} :
                  LET r == Library_load_data(s.books_file, s.members_file, today)
                  IN  /\ r.exc = NoExc
                      /\ r.books = books
                      /\ r.members = members

\* save() has written a catalog that holds a lent book with its due date and
\* a member with the books the member holds, and a catalog constructed on
\* the store holds the same mappings.
C14_Witness ==
    /\ last.op = "save"
    /\ last.exc = NoExc
    /\ \E i \in DOMAIN books : ~books[i].available /\ books[i].due_date # None
    /\ \E i \in DOMAIN members : members[i].borrowed_books # <<>>
    /\ Library_load_data(books_file, members_file, now).books = books
    /\ Library_load_data(books_file, members_file, now).members = members

(***************************************************************************)
(* C15.  For every available book, every member_id and every days          *)
(* argument, Book.borrow(member_id, days) followed by Book.return_book()   *)
(* leaves the book available with no borrower and no due date, and with    *)
(* its other fields as they were; this holds also for a days argument for  *)
(* which the date arithmetic of borrow raises.                             *)
(***************************************************************************)
C15_BorrowThenReturnRestores ==
    \A i \in DOMAIN books :
        books[i].available =>
            \A member_id \in MemberIds, days \in DaysArgs :
                LET b == Book_borrow(books[i], member_id, days, now)
                    r == Book_return_book(b.book)
                IN  /\ ~b.book.available
                    /\ r.exc = NoExc
                    /\ r.book.available
                    /\ r.book.borrowed_by = None
                    /\ r.book.due_date = None
                    /\ r.book = [books[i] EXCEPT !.available = TRUE,
                                                 !.borrowed_by = None,
                                                 !.due_date = None]

\* A book that was lent in the session, to a member added in the session,
\* has been returned: it is available with no borrower and no due date.
C15_Witness ==
    /\ last.op = "return_book"
    /\ last.exc = NoExc
    /\ last.member_id = "M2"
    /\ BookIndex(books, last.isbn) # 0
    /\ books[BookIndex(books, last.isbn)].available
    /\ books[BookIndex(books, last.isbn)].borrowed_by = None
    /\ books[BookIndex(books, last.isbn)].due_date = None

(***************************************************************************)
(* C16.  is_overdue() is false for a book that has no due date (one that   *)
(* was never lent); it is false at once after borrow(days = d) for every   *)
(* d > 0; for a book with a due date it is true exactly when the current   *)
(* time is past the due date that borrow computed; and once true it stays  *)
(* true as long as the book keeps that due date, that is, until the book   *)
(* is returned.                                                            *)
(***************************************************************************)
C16_State ==
    \A i \in DOMAIN books :
        /\ books[i].due_date = None => ~Book_is_overdue(books[i], now)
        /\ books[i].due_date # None =>
              (Book_is_overdue(books[i], now) <=> now > books[i].due_date[1])
        /\ books[i].available =>
              \A member_id \in MemberIds, days \in DaysArgs :
                  LET b == Book_borrow(books[i], member_id, days, now)
                  IN  days > 0 =>
                         /\ ~Book_is_overdue(b.book, now)
                         /\ b.exc = NoExc =>
                               /\ b.book.due_date = Some(now + days)
                               /\ Book_is_overdue(b.book, now + days + 1)

C16_Step ==
    /\ (BorrowStep /\ last'.exc = NoExc) =>
          ~Book_is_overdue(books'[BookIndex(books', last'.isbn)], now')
    /\ \A i \in DOMAIN books : \A j \in DOMAIN books' :
          (/\ Book_is_overdue(books[i], now)
           /\ books'[j].isbn = books[i].isbn
           /\ books'[j].due_date = books[i].due_date) =>
              Book_is_overdue(books'[j], now')

C16_OverdueAfterDueDate == []C16_State /\ [][C16_Step]_vars

\* A book that was lent in the session is overdue: the days of the loan have
\* passed.
C16_Witness ==
    \E i \in DOMAIN books :
        /\ books[i].borrowed_by = Some("M2")
        /\ books[i].due_date # None
        /\ now > books[i].due_date[1]
        /\ Book_is_overdue(books[i], now)

(***************************************************************************)
(* C17.  When an error is raised inside a transaction() scope, by the body *)
(* of the scope or by the save() of its commit, the error that leaves the  *)
(* scope is that error, with its kind and its payload, and by then both    *)
(* mappings have been restored; the scope never ends without an error and  *)
(* never with another error.  An error that leaves an inner scope passes   *)
(* through the outer scope in the same way.                                *)
(***************************************************************************)
C17_ErrorPropagatesUnchanged ==
    [][/\ ExceptStep =>
             /\ last'.scope.raised \in BodyErrors
             /\ last'.scope.raised # NoExc
             /\ last'.exc = last'.scope.raised
             /\ books' = Head(tx).entry.books
             /\ members' = Head(tx).entry.members
       /\ (CommitStep /\ last'.scope.raised # NoExc) =>
             /\ last'.exc = last'.scope.raised
             /\ last'.exc[1] = "OSError"
       /\ (CommitStep /\ last'.scope.raised = NoExc) => last'.exc = NoExc]_vars

\* The error of an operation called inside a scope, an error with a payload,
\* has left the scope as it was raised.
C17_Witness ==
    /\ last.op = "transaction.except"
    /\ last.exc = last.scope.raised
    /\ last.exc # NoExc
    /\ last.exc[1] = "BookNotFoundError"
    /\ last.exc[2] \in Isbns

(***************************************************************************)
(* C18.  search_books(query) returns the books of the mapping whose title  *)
(* or author contains query when the case of the letters is ignored: each  *)
(* such book once, no other book, in the order of the mapping; the call    *)
(* changes neither the mappings nor the store.                             *)
(***************************************************************************)
SameLetter(a, b) == a = b \/ <<a, b>> \in CasePairs \/ <<b, a>> \in CasePairs

\* needle occurs in hay at some offset, letter by letter without the case.
OccursIn(needle, hay) ==
    \E off \in 0..(Len(hay) - Len(needle)) :
        \A k \in 1..Len(needle) : SameLetter(hay[off + k], needle[k])

Matching(bks, query) ==
    {i \in DOMAIN bks : OccursIn(query, bks[i].title) \/ OccursIn(query, bks[i].author)}

SearchIsFilter(bks, query, result) ==
    /\ Len(result) = Cardinality(Matching(bks, query))
    /\ \A i \in Matching(bks, query) : bks[i] \in Range(result)
    /\ \A j \in DOMAIN result : BookIndex(bks, result[j].isbn) \in Matching(bks, query)
    /\ \A j \in DOMAIN result : result[j] = bks[BookIndex(bks, result[j].isbn)]
    /\ \A j, k \in DOMAIN result :
          j < k => BookIndex(bks, result[j].isbn) < BookIndex(bks, result[k].isbn)

C18_State ==
    \A query \in Queries : SearchIsFilter(books, query, Library_search_books(books, query))

C18_Step ==
    (CallStep /\ last'.op = "search_books") =>
        /\ books' = books /\ members' = members
        /\ books_file' = books_file /\ members_file' = members_file
        /\ last'.exc = NoExc
        /\ SearchIsFilter(books, last'.ret[1].query, last'.ret[1].result)

C18_SearchIsCaseInsensitiveFilter == []C18_State /\ [][C18_Step]_vars

\* search_books has returned the second book of a mapping of two, and not
\* the first, for a query in another case than the book's author.
C18_Witness ==
    /\ last.op = "search_books"
    /\ Len(books) = 2
    /\ last.ret[1].result = <<books[2]>>
    /\ ~str_contains(last.ret[1].query, books[2].author)
    /\ last.ret[1].query # <<>>

(***************************************************************************)
(* C19.  In every state, after any operations and after a rollback too,    *)
(* get_statistics() returns the counts of the mappings as they are at the  *)
(* call: total_books the number of books, available_books the number of    *)
(* books that are available, borrowed_books the number that are not,       *)
(* overdue_books the number whose due date has passed, total_members the   *)
(* number of members; the call changes nothing.                            *)
(***************************************************************************)
Counts(bks, mbs, today) ==
    [total_books |-> Cardinality(DOMAIN bks),
     available_books |-> Cardinality({i \in DOMAIN bks : bks[i].available}),
     borrowed_books |-> Cardinality({i \in DOMAIN bks : ~bks[i].available}),
     overdue_books |->
        Cardinality({i \in DOMAIN bks :
                        bks[i].due_date # None /\ today > bks[i].due_date[1]}),
     total_members |-> Cardinality(DOMAIN mbs)]

C19_State == Library_get_statistics(books, members, now) = Counts(books, members, now)

C19_Step ==
    /\ (CallStep /\ last'.op = "get_statistics") =>
          /\ last'.ret = Some(Counts(books, members, now))
          /\ books' = books /\ members' = members
          /\ books_file' = books_file /\ members_file' = members_file
    /\ ExceptStep =>
          Library_get_statistics(books', members', now')
             = Counts(Head(tx).entry.books, Head(tx).entry.members, now)

C19_StatisticsAreCurrentCounts == []C19_State /\ [][C19_Step]_vars

\* get_statistics has counted a catalog with an available book, a lent book
\* and an overdue book.
C19_Witness ==
    /\ last.op = "get_statistics"
    /\ last.ret[1].available_books >= 1
    /\ last.ret[1].borrowed_books >= 1
    /\ last.ret[1].overdue_books >= 1
    /\ last.ret[1].total_members >= 1
    /\ last.ret[1] = Counts(books, members, now)

(***************************************************************************)
(* C20.  On a member whose borrowed_books holds no ISBN twice:             *)
(* add_borrowed_book(isbn) leaves the list as it is when isbn is in it,    *)
(* and otherwise appends isbn at its end; the list never holds an ISBN     *)
(* twice, and a second add of the same isbn changes nothing.               *)
(* remove_borrowed_book(isbn) leaves the list as it is, without an error,  *)
(* when isbn is not in it, and otherwise takes isbn out and leaves the     *)
(* other ISBNs in their order.  Neither touches another field.             *)
(***************************************************************************)
NoDuplicates(s) == \A i, j \in DOMAIN s : i # j => s[i] # s[j]

\* The elements of s other than x, in the order of s.
Without(s, x) ==
    LET keep(y) == y # x
    IN  SelectSeq(s, keep)

C20_Step ==
    LET before == members[1].borrowed_books
        after == members'[1].borrowed_books
        isbn == last'.isbn
    IN  /\ (steps' = steps + 1 /\ last'.op = "add_borrowed_book") =>
              /\ isbn \in Range(before) => after = before
              /\ isbn \notin Range(before) => after = Append(before, isbn)
              /\ NoDuplicates(after)
              /\ Member_add_borrowed_book(members'[1], isbn) = members'[1]
              /\ members' = <<[members[1] EXCEPT !.borrowed_books = after]>>
        /\ (steps' = steps + 1 /\ last'.op = "remove_borrowed_book") =>
              /\ isbn \notin Range(before) => after = before
              /\ isbn \in Range(before) =>
                    /\ isbn \notin Range(after)
                    /\ Len(after) = Len(before) - 1
              /\ after = Without(before, isbn)
              /\ NoDuplicates(after)
              /\ members' = <<[members[1] EXCEPT !.borrowed_books = after]>>

C20_BorrowedBooksIsOrderedSet == [][C20_Step]_vars

\* remove_borrowed_book has taken the middle ISBN out of a list of three.
C20_Witness ==
    /\ last.op = "remove_borrowed_book"
    /\ last.isbn = ISBN2
    /\ last.ret = Some(<<ISBN1, ISBN2, ISBN3>>)
    /\ members[1].borrowed_books = <<ISBN1, ISBN3>>

(***************************************************************************)
(* C21.  When clear_all_data() returns, both mappings are empty and the    *)
(* store holds the empty state: a catalog constructed on it afterwards     *)
(* has no books and no members.                                            *)
(***************************************************************************)
C21_ClearEmptiesAndPersists ==
    [][(CallStep /\ last'.op = "clear_all_data" /\ last'.exc = NoExc) =>
          /\ books' = <<>>
          /\ members' = <<>>
          /\ FreshLoad.exc = NoExc
          /\ FreshLoad.books = <<>>
          /\ FreshLoad.members = <<>>]_vars

\* clear_all_data() has returned inside a scope that was entered on a
\* catalog with books and a written store: the mappings are empty and both
\* files hold an empty array.
C21_Witness ==
    /\ last.op = "clear_all_data"
    /\ last.exc = NoExc
    /\ tx # <<>>
    /\ Head(tx).entry.books # <<>>
    /\ Head(tx).entry.books_file.kind = "json"
    /\ Head(tx).entry.books_file.data # <<>>
    /\ books = <<>> /\ members = <<>>
    /\ books_file = Json(<<>>) /\ members_file = Json(<<>>)

(***************************************************************************)
(* C22.  At most one transaction() scope of a catalog is open at a time:   *)
(* while one scope is open no second scope of the same catalog is entered, *)
(* so that no scope is entered, committed or rolled back inside another.   *)
(***************************************************************************)
C22_OneActiveTransaction == Len(tx) <= 1

(***************************************************************************)
(* C23.  Constructing a catalog on a store whose files are each missing,   *)
(* zero-length or a JSON array of objects raises InvalidDataError when     *)
(* a record lacks a required key or breaks a constraint of its entity (an  *)
(* isbn shorter than 10 characters, an empty title or author, a year       *)
(* outside 1000..current year, an empty member_id or name, an email        *)
(* without "@"), and no catalog exists then; otherwise it raises nothing   *)
(* and every entity of the catalog satisfies the constraints.              *)
(***************************************************************************)
BookViolates(data, today) ==
    \/ ~({"isbn", "title", "author", "year"} \subseteq DOMAIN data)
    \/ Len(data.isbn) < MinIsbnLen
    \/ data.title = <<>>
    \/ data.author = <<>>
    \/ data.year < MinYear
    \/ data.year > YearOf(today)

MemberViolates(data) ==
    \/ ~({"member_id", "name", "email"} \subseteq DOMAIN data)
    \/ data.member_id = ""
    \/ data.name = ""
    \/ \A k \in DOMAIN data.email : data.email[k] # "@"

RecordStore ==
    /\ Absent(books_file) \/ books_file.kind = "json"
    /\ Absent(members_file) \/ members_file.kind = "json"

StoreViolates ==
    \/ /\ books_file.kind = "json"
       /\ \E i \in DOMAIN books_file.data : BookViolates(books_file.data[i], now)
    \/ /\ members_file.kind = "json"
       /\ \E i \in DOMAIN members_file.data : MemberViolates(members_file.data[i])

C23_Step ==
    (CallStep /\ last'.op = "__init__" /\ RecordStore) =>
        IF StoreViolates
        THEN /\ last'.exc # NoExc
             /\ last'.exc[1] = "InvalidDataError"
             /\ books' = <<>> /\ members' = <<>>
        ELSE /\ last'.exc = NoExc
             /\ Len(books') = Len(books_file.data)
             /\ Len(members') = Len(members_file.data)
             /\ \A i \in DOMAIN books' : ~BookViolates(books'[i], now)
             /\ \A i \in DOMAIN members' : ~MemberViolates(members'[i])

C23_LoadValidatesRecords == [][C23_Step]_vars

\* The constructor has raised InvalidDataError on a store whose books file
\* holds a valid record followed by one that breaks a constraint, beside a
\* members file of valid records.
C23_Witness ==
    /\ last.op = "__init__"
    /\ last.exc = <<"InvalidDataError", "ValueError">>
    /\ books_file.kind = "json"
    /\ Len(books_file.data) = 2
    /\ ~BookViolates(books_file.data[1], now)
    /\ BookViolates(books_file.data[2], now)
    /\ members_file.kind = "json"
    /\ \A i \in DOMAIN members_file.data : ~MemberViolates(members_file.data[i])

(***************************************************************************)
(* C24.  In every state reached from an empty catalog through add_book,    *)
(* add_member, borrow_book, return_book and transactions, the two          *)
(* mappings agree: for every book b and member m, b.isbn is in             *)
(* m.borrowed_books exactly when b.borrowed_by is m.member_id, and every   *)
(* borrowed_by that is set is a key of the member mapping.  (A session     *)
(* whose store files are still missing started on the empty catalog.)      *)
(***************************************************************************)
FromEmptyCatalog == books_file = Missing /\ members_file = Missing

C24_MappingsAgree ==
    FromEmptyCatalog =>
        /\ \A i \in DOMAIN books : \A j \in DOMAIN members :
              books[i].isbn \in Range(members[j].borrowed_books)
                 <=> books[i].borrowed_by = Some(members[j].member_id)
        /\ \A i \in DOMAIN books :
              books[i].borrowed_by # None =>
                 books[i].borrowed_by[1] \in MemberKeys(members)

(***************************************************************************)
(* C25.  In every state the catalog reaches through its operations, every  *)
(* member holds at most max_books books, and borrowed_books holds no ISBN  *)
(* twice.                                                                  *)
(***************************************************************************)
C25_MembersWithinCapacity ==
    \A i \in DOMAIN members :
        /\ Len(members[i].borrowed_books) <= members[i].max_books
        /\ NoDuplicates(members[i].borrowed_books)

\* borrow_book has lent a book to a member who holds max_books books with
\* it.
C25_Witness ==
    /\ last.op = "borrow_book"
    /\ last.exc = NoExc
    /\ MemberIndex(members, last.member_id) # 0
    /\ last.isbn \in Range(members[MemberIndex(members, last.member_id)].borrowed_books)
    /\ Len(members[MemberIndex(members, last.member_id)].borrowed_books)
          = members[MemberIndex(members, last.member_id)].max_books

(***************************************************************************)
(* C26.  When the body of a transaction() scope ends without an error and  *)
(* the save() of the commit raises, both mappings are after the scope what *)
(* they were when the scope was entered, and the error of save() is the    *)
(* error that leaves the scope: a scope never ends with an error while the *)
(* mappings hold what its body made of them.                               *)
(***************************************************************************)
C26_FailedCommitRollsBack ==
    [][CommitStep =>
          LET s == Library_save(books, members, books_file, members_file, "complete")
              failed == last'.scope.raised # NoExc
          IN  /\ failed =>
                    /\ last'.exc = last'.scope.raised
                    /\ last'.exc \in {<<"OSError", "books">>, <<"OSError", "members">>}
                    /\ books' = Head(tx).entry.books
                    /\ members' = Head(tx).entry.members
              /\ last'.exc # NoExc => failed
              /\ ~failed =>
                    /\ books' = books /\ members' = members
                    /\ books_file' = s.books_file /\ members_file' = s.members_file]_vars

\* The save() of a commit has raised after the body of the scope had changed
\* the mappings, and the save error has left the scope.
C26_Witness ==
    /\ last.op = "transaction.commit"
    /\ last.exc # NoExc
    /\ last.exc[1] = "OSError"
    /\ last.scope.changed \/ last.scope.added
    /\ ~last.scope.cleared

=============================================================================
